---- MODULE Spec2Model ----
(***************************************************************************)
(* A model of pieperseus.py: the patch-and-repackage pipeline run by       *)
(* main(), over the file system it works on.  File names, archive entry    *)
(* paths and version strings are sequences of one-character strings, so    *)
(* that globbing, sorting, prefix removal and time formatting are          *)
(* computed as the code computes them.                                     *)
(***************************************************************************)
EXTENDS Integers, Sequences, FiniteSets, TLC

(***************************************************************************)
(* Bounds of the model.                                                    *)
(***************************************************************************)
\* number of consecutive runs of main on the same working directory
MaxRuns == 2
\* number of entries of packages/
MaxPackages == 2
\* number of tool invocations that fail, over all runs
MaxFailures == 1

(***************************************************************************)
(* Characters and strings.                                                 *)
(***************************************************************************)
\* Unicode code points of the characters used, as Python's str order has it
Ord ==
  (" " :> 32) @@ ("'" :> 39) @@ ("-" :> 45) @@ ("." :> 46) @@ ("/" :> 47) @@
  ("0" :> 48) @@ ("1" :> 49) @@ ("2" :> 50) @@ ("3" :> 51) @@ ("4" :> 52) @@
  ("5" :> 53) @@ ("6" :> 54) @@ ("7" :> 55) @@ ("8" :> 56) @@ ("9" :> 57) @@
  ("=" :> 61) @@ ("A" :> 65) @@ ("B" :> 66) @@ ("L" :> 76) @@ ("N" :> 78) @@
  ("P" :> 80) @@ ("_" :> 95) @@
  ("a" :> 97) @@ ("b" :> 98) @@ ("c" :> 99) @@ ("d" :> 100) @@ ("e" :> 101) @@
  ("g" :> 103) @@ ("h" :> 104) @@ ("i" :> 105) @@ ("k" :> 107) @@
  ("l" :> 108) @@ ("m" :> 109) @@ ("n" :> 110) @@ ("o" :> 111) @@
  ("p" :> 112) @@ ("r" :> 114) @@ ("s" :> 115) @@ ("t" :> 116) @@
  ("u" :> 117) @@ ("v" :> 118) @@ ("x" :> 120) @@ ("z" :> 122)

Digit == <<"0", "1", "2", "3", "4", "5", "6", "7", "8", "9">>

\* a < b in Python's string order (code point by code point, a proper prefix first)
StrLess(a, b) ==
  \E i \in 1..(Len(b)) :
     /\ \A j \in 1..(i - 1) : j <= Len(a) /\ a[j] = b[j]
     /\ \/ Len(a) = i - 1
        \/ Len(a) >= i /\ Ord[a[i]] < Ord[b[i]]

\* sorted(S)[0]
SortedFirst(S) == CHOOSE x \in S : \A y \in S : x = y \/ StrLess(x, y)

\* s.startswith(p)
StartsWith(s, p) == Len(s) >= Len(p) /\ SubSeq(s, 1, Len(p)) = p

\* s.endswith(p)
EndsWith(s, p) == Len(s) >= Len(p) /\ SubSeq(s, Len(s) - Len(p) + 1, Len(s)) = p

\* p in s
Contains(s, p) ==
  \E i \in 1..(Len(s) - Len(p) + 1) : SubSeq(s, i, i + Len(p) - 1) = p

\* s.removeprefix(p)
RemovePrefix(s, p) == IF StartsWith(s, p) THEN SubSeq(s, Len(p) + 1, Len(s)) ELSE s

\* glob: a pattern that does not begin with a dot matches no name that does
IsHidden(s) == Len(s) > 0 /\ s[1] = "."

\* glob(pre + '*' + suf) over the names of one directory
Glob(names, pre, suf) ==
  { n \in names : /\ ~IsHidden(n)
                  /\ Len(n) >= Len(pre) + Len(suf)
                  /\ StartsWith(n, pre)
                  /\ EndsWith(n, suf) }

\* glob('*' + mid + '*') over the names of one directory
GlobInfix(names, mid) == { n \in names : ~IsHidden(n) /\ Contains(n, mid) }

(***************************************************************************)
(* The names the program builds.                                           *)
(***************************************************************************)
pkg ==
  <<"c", "o", "m", ".", "b", "i", "l", "i", "b", "i", "l", "i", ".",
    "A", "z", "u", "r", "L", "a", "n", "e">>

DotApk == <<".", "a", "p", "k">>
DotZip == <<".", "z", "i", "p">>
Dot7z == <<".", "7", "z">>
PartStr == <<"p", "a", "r", "t">>
DotPatchedApk == <<".", "p", "a", "t", "c", "h", "e", "d">> \o DotApk
DotUnsigned == <<".", "u", "n", "s", "i", "g", "n", "e", "d">>
DotIdsig == <<".", "i", "d", "s", "i", "g">>
LibsZipName ==
  <<"p", "e", "r", "s", "e", "u", "s", "_", "l", "i", "b", "s">> \o DotZip

\* f'{pkg}.apk'
PkgApk == pkg \o DotApk

\* f'{pkg}-{pkg_version}.patched.apk'
PatchedName(v) == pkg \o <<"-">> \o v \o DotPatchedApk

(***************************************************************************)
(* datetime.utcfromtimestamp(t).strftime('%Y%m%d%H%M%S'), for t >= 0.      *)
(***************************************************************************)
\* %m, %d, %H, %M, %S without the leading zero
Pad2_unpadded(n) ==
  IF n < 10 THEN <<Digit[n + 1]>> ELSE <<Digit[(n \div 10) + 1], Digit[(n % 10) + 1]>>

Pad2(n) == <<Digit[(n \div 10) + 1], Digit[(n % 10) + 1]>>

Pad4(n) == Pad2(n \div 100) \o Pad2(n % 100)

\* the proleptic Gregorian date of day number d (days since 1970-01-01)
CivilFromDays(d) ==
  LET z == d + 719468
      era == z \div 146097
      doe == z - era * 146097
      yoe == (doe - doe \div 1460 + doe \div 36524 - doe \div 146096) \div 365
      doy == doe - (365 * yoe + yoe \div 4 - yoe \div 100)
      mp == (5 * doy + 2) \div 153
      day == doy - (153 * mp + 2) \div 5 + 1
      month == IF mp < 10 THEN mp + 3 ELSE mp - 9
      year == yoe + era * 400 + (IF month <= 2 THEN 1 ELSE 0)
  IN  [year |-> year, month |-> month, day |-> day]

Strftime(t) ==
  LET date == CivilFromDays(t \div 86400)
      secs == t % 86400
  IN  Pad4(date.year) \o Pad2(date.month) \o Pad2(date.day) \o
      Pad2(secs \div 3600) \o Pad2((secs % 3600) \div 60) \o Pad2(secs % 60)

(***************************************************************************)
(* The badging dump and re.search(r"versionName='([^']+)'", stdout).       *)
(***************************************************************************)
VersionNameEq ==
  <<"v", "e", "r", "s", "i", "o", "n", "N", "a", "m", "e", "=", "'">>

VersionCodeText ==
  <<"v", "e", "r", "s", "i", "o", "n", "C", "o", "d", "e", "=", "'", "7", "'">>

\* what `aapt dump badging` prints for an archive whose manifest is m:
\* 1 names version 1.2, 2 names no version, 3 names an empty version
Badging(m) ==
  CASE m = 1 -> VersionCodeText \o <<" ">> \o VersionNameEq \o <<"1", ".", "2", "'">>
    [] m = 2 -> VersionCodeText
    [] OTHER -> VersionNameEq \o <<"'", " ">> \o VersionCodeText

\* the positions i and lengths n at which the pattern matches: the literal
\* prefix at i, then n >= 1 characters other than a quote, then a quote
ReMatches(text) ==
  { m \in { i \in 1..(Len(text) - Len(VersionNameEq) + 1) :
              SubSeq(text, i, i + Len(VersionNameEq) - 1) = VersionNameEq }
           \X (1..Len(text)) :
      LET from == m[1] + Len(VersionNameEq)
          n == m[2]
      IN  /\ from + n <= Len(text)
          /\ \A k \in from..(from + n - 1) : text[k] # "'"
          /\ text[from + n] = "'" }

\* the group taken one character too long, closing quote included
ReSearchVersionName_with_quote(text) ==
  IF ReMatches(text) = {} THEN <<>>
  ELSE LET m == CHOOSE x \in ReMatches(text) :
                   \A y \in ReMatches(text) : x[1] <= y[1]
       IN  SubSeq(text, m[1] + Len(VersionNameEq), m[1] + Len(VersionNameEq) + m[2])

\* m.group(1) of the leftmost match, or <<>> when re.search returns None
ReSearchVersionName(text) ==
  IF ReMatches(text) = {} THEN <<>>
  ELSE LET m == CHOOSE x \in ReMatches(text) :
                   \A y \in ReMatches(text) : x[1] <= y[1]
       IN  SubSeq(text, m[1] + Len(VersionNameEq), m[1] + Len(VersionNameEq) + m[2] - 1)

(***************************************************************************)
(* Archive entry paths.                                                    *)
(***************************************************************************)
Archs ==
  << <<"a", "r", "m", "6", "4", "-", "v", "8", "a">>,
     <<"x", "8", "6", "_", "6", "4">>,
     <<"x", "8", "6">> >>

LibDir == <<"/", "l", "i", "b", "/">>
LibFile == <<"/", "l", "i", "b", "P", "e", "r", "s", "e", "u", "s", ".", "s", "o">>

\* libs = [f'{pkg}/lib/{arch}/libPerseus.so' for arch in [...]]
libs == [i \in 1..Len(Archs) |-> pkg \o LibDir \o Archs[i] \o LibFile]

\* libs_renamed = [lib.removeprefix(f'{pkg}/') for lib in libs]
libs_renamed == [i \in 1..Len(libs) |-> RemovePrefix(libs[i], pkg \o <<"/">>)]

\* an entry of the application that no stage of the pipeline names
DexPath == <<"c", "l", "a", "s", "s", "e", "s", ".", "d", "e", "x">>

(***************************************************************************)
(* Files.  A file of the working directory is a record: stat says whether  *)
(* os.stat succeeds on the name (it fails on a dangling link, which glob   *)
(* still lists), mtime is its modification time, manifest identifies what  *)
(* the badging dump prints for it, entries maps the paths of its archive   *)
(* entries to their payloads, signed says whether apksigner signed it.     *)
(***************************************************************************)
NoEntries == [p \in {} |-> 0]

File(mtime, manifest, entries, signed) ==
  [stat |-> TRUE, mtime |-> mtime, manifest |-> manifest,
   entries |-> entries, signed |-> signed]

\* the times at which the successive runs of main happen
Times == <<1709251199, 1709251239, 1709254800, 1709258400>>

\* the application as distributed: one entry, no Perseus library, and the
\* modification time the distributed archive stores for it
OriginalApk(manifest) == File(1700000000, manifest, DexPath :> 1, FALSE)

NoFiles == [n \in {} |-> 0]

BaseApkName == <<"b", "a", "s", "e">> \o DotApk

\* the names packages/ may hold
PkgZip == pkg \o DotZip
Pkg7z == pkg \o Dot7z
AZip == <<"A">> \o DotZip
B7z == <<"B">> \o Dot7z
XPart == <<"x", ".">> \o PartStr \o <<"1">>
HiddenZip == <<".", "a">> \o DotZip
NotesTxt == <<"n", "o", "t", "e", "s", ".", "t", "x", "t">>

PackageNames == {PkgZip, Pkg7z, AZip, B7z, XPart, HiddenZip, NotesTxt}

\* what extracting the archive of that name writes into the working directory
ArchiveContent(name) ==
  CASE name = PkgZip -> PkgApk :> OriginalApk(1)
    [] name = Pkg7z -> PkgApk :> OriginalApk(2)
    [] name = AZip -> (PkgApk :> OriginalApk(3)) @@ (BaseApkName :> OriginalApk(1))
    [] name = XPart -> PkgApk :> OriginalApk(1)
    [] OTHER -> NoFiles

\* the content of apk_build/ before the first run
PriorDirs == {NoFiles, PkgApk :> OriginalApk(1)}

\* os.path.isfile(name) in the directory dir
IsFile(dir, name) == name \in DOMAIN dir /\ dir[name].stat

\* the directory dir with name bound to file f
Put(dir, name, f) == [n \in (DOMAIN dir) \cup {name} |-> IF n = name THEN f ELSE dir[n]]

\* nothing removed
Remove_nothing(dir, name) == dir

\* a .unsigned file left where it is
Remove_keeps_unsigned(dir, name) ==
  IF EndsWith(name, DotUnsigned) THEN dir ELSE [n \in (DOMAIN dir) \ {name} |-> dir[n]]

\* os.remove(name)
Remove(dir, name) == [n \in (DOMAIN dir) \ {name} |-> dir[n]]

\* shutil.move(src, dst)
Move(dir, src, dst) == Remove(Put(dir, dst, dir[src]), src)

(***************************************************************************)
(* The decompiled tree {pkg}/ and the native libraries.                    *)
(***************************************************************************)
NoTree == [exists |-> FALSE, manifest |-> 0, dex |-> 0, lib |-> <<0, 0, 0>>]

\* the payload of the library for Archs[i] that build b of PerseusLib produced
LibPayload(b, i) == 10 * b + i

(***************************************************************************)
(* State.                                                                  *)
(***************************************************************************)
VARIABLES
  pc,            \* the stage main is about to call, "idle" when no process runs
  skip,          \* global skip
  quick_rebuild, \* global quick_rebuild
  pkg_version,   \* global pkg_version
  exit_code,     \* exit status of the last process, -1 while it runs or before any
  runs,          \* number of runs of main started so far
  packages,      \* names of the entries of packages/
  bin7zz,        \* whether bin/7zz is a file
  aapt,          \* the badging tool: "absent", "fails" or "ok"
  apk_build,     \* whether the directory apk_build/ exists
  files,         \* the files of apk_build/, by name
  tree,          \* the decompiled tree apk_build/{pkg}/
  libs_dir,      \* the build PerseusLib/src/libs holds, 0 when it is absent
  archive,       \* the archive extract_from_packages chose in this run, <<>> if none
  version_via,   \* the branch of get_version that assigned pkg_version in this run
  trace,         \* calls, returns and tool invocations of this run, in order
  files_at_start,\* the files of apk_build/ when this run started
  failures,      \* number of tool invocations that failed so far
  prev           \* what the last finished run did

vars ==
  <<pc, skip, quick_rebuild, pkg_version, exit_code, runs, packages, bin7zz,
    aapt, apk_build, files, tree, libs_dir, archive, version_via, trace,
    files_at_start, failures, prev>>

\* time.time() / utcnow() during the current run
Now == Times[runs]

\* the exit statuses a tool may return
Rc == {0, 1}

\* 1 when a tool that had what it needs exits non-zero all the same
Fault(rc, doomed) == IF rc # 0 /\ ~doomed THEN 1 ELSE 0

\* a tool that lacks what it needs (doomed) exits non-zero; the faults n of
\* this step stay within the bound of the model
Outcome(rc, doomed) == doomed => rc # 0
Within(n) == failures + n <= MaxFailures

Call(f) == [op |-> "call", what |-> f, rc |-> 0]
Return(f) == [op |-> "return", what |-> f, rc |-> 0]
Tool(t, rc) == [op |-> "tool", what |-> t, rc |-> rc]
Raise(e) == [op |-> "raise", what |-> e, rc |-> 1]

\* no tool invocation logged in evs exited non-zero
ToolsOk(evs) == \A k \in 1..Len(evs) : evs[k].op = "tool" => evs[k].rc = 0

\* the process ends with status code after logging the events evs
Exit(code, evs, n) ==
  /\ pc' = "idle"
  /\ exit_code' = code
  /\ trace' = trace \o evs
  /\ failures' = failures + n
  /\ prev' = [skip |-> skip, quick_rebuild |-> quick_rebuild, exit_code |-> code,
              pkg_version |-> pkg_version, tools_ok |-> ToolsOk(trace \o evs)]

\* main with get_version called after rebuild
NextStage_version_after_rebuild(stage) ==
  CASE stage = "build" -> "mkcd"
    [] stage = "mkcd" -> "extract"
    [] stage = "extract" -> "decompile"
    [] stage = "decompile" -> "copy"
    [] stage = "copy" -> "patch"
    [] stage = "patch" -> "rebuild"
    [] stage = "rebuild" -> "version"
    [] stage = "version" -> "sign"
    [] stage = "sign" -> "compress"

\* main with get_version called after decompile_apk
NextStage_version_late(stage) ==
  CASE stage = "build" -> "mkcd"
    [] stage = "mkcd" -> "extract"
    [] stage = "extract" -> "decompile"
    [] stage = "decompile" -> "version"
    [] stage = "version" -> "copy"
    [] stage = "copy" -> "patch"
    [] stage = "patch" -> "rebuild"
    [] stage = "rebuild" -> "sign"
    [] stage = "sign" -> "compress"

\* the call main makes after stage returns
NextStage(stage) ==
  CASE stage = "build" -> "mkcd"
    [] stage = "mkcd" -> "extract"
    [] stage = "extract" -> "version"
    [] stage = "version" -> "decompile"
    [] stage = "decompile" -> "copy"
    [] stage = "copy" -> "patch"
    [] stage = "patch" -> "rebuild"
    [] stage = "rebuild" -> "sign"
    [] stage = "sign" -> "compress"

\* the stage returns after logging the events evs; main calls the next one
Goto(stage, evs, n) ==
  /\ pc' = NextStage(stage)
  /\ trace' = trace \o evs
  /\ failures' = failures + n
  /\ UNCHANGED <<exit_code, prev>>

\* prev before any run has finished
NoRun ==
  [skip |-> FALSE, quick_rebuild |-> FALSE, exit_code |-> -1,
   pkg_version |-> <<"0">>, tools_ok |-> FALSE]

\* the state before the first run, but for the inputs
Start ==
  /\ pc = "idle"
  /\ skip = FALSE
  /\ quick_rebuild = FALSE
  /\ pkg_version = <<"0">>
  /\ exit_code = -1
  /\ runs = 0
  /\ tree = NoTree
  /\ libs_dir = 0
  /\ archive = <<>>
  /\ version_via = "none"
  /\ trace = <<>>
  /\ files_at_start = files
  /\ failures = 0
  /\ prev = NoRun

\* what packages/ and apk_build/ hold before the first run
Inputs ==
  {[packages |-> {}, files |-> NoFiles],
   [packages |-> {}, files |-> PkgApk :> OriginalApk(1)],
   [packages |-> {PkgZip}, files |-> NoFiles],
   [packages |-> {Pkg7z, NotesTxt}, files |-> NoFiles],
   [packages |-> {AZip, B7z}, files |-> NoFiles],
   [packages |-> {B7z, HiddenZip}, files |-> NoFiles],
   [packages |-> {B7z, XPart}, files |-> NoFiles]}

Init ==
  /\ \E in \in Inputs : /\ packages = in.packages
                        /\ files = in.files
                        /\ apk_build = (in.files # NoFiles)
  /\ bin7zz \in BOOLEAN
  /\ aapt \in {"absent", "fails", "ok"}
  /\ Start

(***************************************************************************)
(* main: argument parsing, then the stages in the order main calls them.   *)
(***************************************************************************)
\* a new process: the module globals are initialised, the flags are parsed
main ==
  /\ pc = "idle"
  /\ runs < MaxRuns
  /\ runs' = runs + 1
  /\ skip' \in BOOLEAN
  /\ quick_rebuild' \in BOOLEAN
  /\ pkg_version' = <<"0">>
  /\ exit_code' = -1
  /\ archive' = <<>>
  /\ version_via' = "none"
  /\ trace' = <<>>
  /\ files_at_start' = files
  /\ pc' = "build"
  /\ UNCHANGED <<packages, bin7zz, aapt, apk_build, files, tree, libs_dir,
                 failures, prev>>

\* the build a successful ndk-build leaves in PerseusLib/src/libs: the
\* library sources change between runs, so each run builds new payloads
NdkOutput == runs

\* only a negative status taken for a failure
BuildFailed_negative(rc) == rc < 0

\* return_code != 0
BuildFailed(rc) == rc # 0

build_perseus_lib ==
  /\ pc = "build"
  /\ \E rc \in Rc :
       /\ Within(Fault(rc, FALSE))
       /\ IF BuildFailed(rc)
          THEN /\ Exit(1, <<Call("build_perseus_lib"), Tool("ndk-build", rc)>>,
                       Fault(rc, FALSE))
               /\ UNCHANGED libs_dir
          ELSE /\ libs_dir' = NdkOutput
               /\ Goto("build", <<Call("build_perseus_lib"), Tool("ndk-build", rc),
                                 Return("build_perseus_lib")>>, 0)
  /\ UNCHANGED <<skip, quick_rebuild, pkg_version, runs, packages, bin7zz, aapt,
                 apk_build, files, tree, archive, version_via, files_at_start>>

mkcd ==
  /\ pc = "mkcd"
  /\ apk_build' = TRUE
  /\ Goto("mkcd", <<>>, 0)
  /\ UNCHANGED <<skip, quick_rebuild, pkg_version, runs, packages, bin7zz, aapt,
                 files, tree, libs_dir, archive, version_via, files_at_start>>

\* the fallback patterns consulted even when a name starts with pkg
ExtractCandidates_merged(names) ==
  Glob(names, pkg, <<>>) \cup Glob(names, <<>>, DotZip) \cup Glob(names, <<>>, Dot7z)
    \cup GlobInfix(names, PartStr)

\* the candidates of extract_from_packages for the entries names of packages/
ExtractCandidates(names) ==
  LET byName == Glob(names, pkg, <<>>)
  IN  IF byName # {} THEN byName
      ELSE Glob(names, <<>>, DotZip) \cup Glob(names, <<>>, Dot7z)
             \cup GlobInfix(names, PartStr)

\* unzip whether or not bin/7zz is there
ExtractTool_always_unzip == "unzip"

\* the tool extract_from_packages runs
ExtractTool == IF bin7zz THEN "7zz x" ELSE "unzip"

\* the skip flag not consulted
ExtractSkipped_ignores_flag(dir) == IsFile(dir, PkgApk)

\* extraction never skipped
ExtractSkipped_never(dir) == FALSE

\* skip and os.path.isfile(f'{pkg}.apk')
ExtractSkipped(dir) == skip /\ IsFile(dir, PkgApk)

\* the check after the tool left out
ExtractFailed_unchecked(rc, dir) == rc # 0

\* proc.returncode != 0, or not os.path.isfile(f'{pkg}.apk') after the tool
ExtractFailed(rc, dir) == rc # 0 \/ ~IsFile(dir, PkgApk)

extract_from_packages ==
  /\ pc = "extract"
  /\ IF ExtractSkipped(files)
     THEN /\ Goto("extract", <<Call("extract_from_packages"),
                               Return("extract_from_packages")>>, 0)
          /\ UNCHANGED <<files, archive>>
     ELSE LET candidates == ExtractCandidates(packages)
          IN  IF candidates = {}
              THEN /\ Exit(1, <<Call("extract_from_packages")>>, 0)
                   /\ UNCHANGED <<files, archive>>
              ELSE /\ archive' = SortedFirst(candidates)
                   /\ \E rc \in Rc :
                        LET extracted == IF rc = 0
                                         THEN ArchiveContent(archive') @@ files
                                         ELSE files
                            evs == <<Call("extract_from_packages"), Tool(ExtractTool, rc)>>
                        IN  /\ Within(Fault(rc, FALSE))
                            /\ files' = extracted
                            /\ IF ExtractFailed(rc, extracted)
                               THEN Exit(1, evs, Fault(rc, FALSE))
                               ELSE Goto("extract",
                                         Append(evs, Return("extract_from_packages")), 0)
  /\ UNCHANGED <<skip, quick_rebuild, pkg_version, runs, packages, bin7zz, aapt,
                 apk_build, tree, libs_dir, version_via, files_at_start>>

(***************************************************************************)
(* get_version.                                                            *)
(***************************************************************************)
\* sorted(glob(f'{pkg}*.apk') + glob('*.apk'))
VersionCandidates(dir) ==
  Glob(DOMAIN dir, pkg, DotApk) \cup Glob(DOMAIN dir, <<>>, DotApk)

\* the outcome of run(['aapt', 'dump', 'badging', apk]): found says whether
\* the tool could be started, rc is its exit status, stdout its output
RunAapt(dir, apk, tool) ==
  IF tool = "absent" THEN [found |-> FALSE, rc |-> 1, stdout |-> <<>>]
  ELSE IF tool = "fails" \/ ~dir[apk].stat THEN [found |-> TRUE, rc |-> 1, stdout |-> <<>>]
  ELSE [found |-> TRUE, rc |-> 0, stdout |-> Badging(dir[apk].manifest)]

\* the version get_version assigns in directory dir with the badging tool
\* in state tool at time now, the branch that assigns it and the candidate
GetVersion(dir, tool, now) ==
  LET candidates == VersionCandidates(dir)
  IN  IF candidates = {}
      THEN [version |-> Strftime(now), via |-> "utcnow, no apk", apk |-> <<>>]
      ELSE LET apk == SortedFirst(candidates)
               proc == RunAapt(dir, apk, tool)
               m == IF proc.found /\ proc.rc = 0
                    THEN ReSearchVersionName(proc.stdout) ELSE <<>>
           IN  IF m # <<>>
               THEN [version |-> m, via |-> "aapt", apk |-> apk]
               ELSE IF dir[apk].stat
               THEN [version |-> Strftime(dir[apk].mtime), via |-> "mtime", apk |-> apk]
               ELSE [version |-> Strftime(now), via |-> "utcnow, no mtime", apk |-> apk]

get_version ==
  /\ pc = "version"
  /\ LET r == GetVersion(files, aapt, Now)
     IN  /\ pkg_version' = r.version
         /\ version_via' = r.via
         /\ Goto("version",
                 <<Call("get_version")>> \o
                 (IF r.apk # <<>> /\ aapt # "absent"
                  THEN <<Tool("aapt", RunAapt(files, r.apk, aapt).rc)>> ELSE <<>>) \o
                 <<Return("get_version")>>, 0)
  /\ UNCHANGED <<skip, quick_rebuild, runs, packages, bin7zz, aapt, apk_build,
                 files, tree, libs_dir, archive, files_at_start>>

(***************************************************************************)
(* decompile_apk, copy_perseus_libs, patch.                                *)
(***************************************************************************)
\* the payload at path p of an archive's entries, 0 when it has no such entry
PayloadAt(entries, p) == IF p \in DOMAIN entries THEN entries[p] ELSE 0

\* the tree `apktool d` writes for the archive apk
Decompiled(apk) ==
  [exists |-> TRUE, manifest |-> apk.manifest,
   dex |-> PayloadAt(apk.entries, DexPath),
   lib |-> [i \in 1..Len(Archs) |-> PayloadAt(apk.entries, libs_renamed[i])]]

\* the tree taken for decompiled whatever the flag
DecompileSkipped_ignores_flag(t) == t.exists

\* decompile never skipped
DecompileSkipped_never(t) == FALSE

\* skip and os.path.isdir(pkg)
DecompileSkipped(t) == skip /\ t.exists

decompile_apk ==
  /\ pc = "decompile"
  /\ IF DecompileSkipped(tree)
     THEN /\ Goto("decompile", <<Call("decompile_apk"), Return("decompile_apk")>>, 0)
          /\ UNCHANGED tree
     ELSE \E rc \in Rc :
            \* apktool d fails when there is no archive to decompile
            LET doomed == ~IsFile(files, PkgApk)
            IN  /\ Outcome(rc, doomed)
                /\ Within(Fault(rc, doomed))
                /\ tree' = IF rc = 0 THEN Decompiled(files[PkgApk]) ELSE NoTree
                /\ Goto("decompile",
                     <<Call("decompile_apk")>> \o
                     (IF tree.exists THEN <<Tool("rmtree", 0)>> ELSE <<>>) \o
                     <<Tool("apktool d", rc), Return("decompile_apk")>>,
                     Fault(rc, doomed))
  /\ UNCHANGED <<skip, quick_rebuild, pkg_version, runs, packages, bin7zz, aapt,
                 apk_build, files, libs_dir, archive, version_via, files_at_start>>

copy_perseus_libs ==
  /\ pc = "copy"
  /\ \E rc \in Rc :
       \* cp fails when the libraries or the directory to copy them to are missing
       LET doomed == ~tree.exists \/ libs_dir = 0
       IN  /\ Outcome(rc, doomed)
           /\ Within(Fault(rc, doomed))
           /\ tree' = IF rc = 0
                      THEN [tree EXCEPT
                              !.lib = [i \in 1..Len(Archs) |-> LibPayload(libs_dir, i)]]
                      ELSE tree
           /\ Goto("copy", <<Call("copy_perseus_libs"), Tool("cp", rc),
                              Return("copy_perseus_libs")>>, Fault(rc, doomed))
  /\ UNCHANGED <<skip, quick_rebuild, pkg_version, runs, packages, bin7zz, aapt,
                 apk_build, files, libs_dir, archive, version_via, files_at_start>>

patch ==
  /\ pc = "patch"
  /\ \E rc \in Rc :
       \* the patch script fails when there is no tree to patch
       LET doomed == ~tree.exists
       IN  /\ Outcome(rc, doomed)
           /\ Within(Fault(rc, doomed))
           /\ tree' = IF rc = 0 THEN [tree EXCEPT !.dex = 2] ELSE tree
           /\ Goto("patch", <<Call("patch"), Tool("patch.sh", rc), Return("patch")>>,
                   Fault(rc, doomed))
  /\ UNCHANGED <<skip, quick_rebuild, pkg_version, runs, packages, bin7zz, aapt,
                 apk_build, files, libs_dir, archive, version_via, files_at_start>>

(***************************************************************************)
(* rebuild.                                                                *)
(***************************************************************************)
\* 7zz d: the entries without those at paths
ArchiveDelete(entries, paths) ==
  [p \in (DOMAIN entries) \ {paths[i] : i \in 1..Len(paths)} |-> entries[p]]

\* 7zz a: the files of the tree named by paths that exist are added under
\* the names they were given on the command line
ArchiveAdd(entries, paths, payloads) ==
  LET added == {i \in 1..Len(paths) : payloads[i] # 0}
  IN  [p \in (DOMAIN entries) \cup {paths[i] : i \in added} |->
         IF \E i \in added : paths[i] = p
         THEN payloads[CHOOSE i \in added : paths[i] = p]
         ELSE entries[p]]

\* 7zz rn: one entry renamed
RenameEntry(entries, src, dst) ==
  IF src \notin DOMAIN entries \/ src = dst THEN entries
  ELSE [p \in ((DOMAIN entries) \ {src}) \cup {dst} |->
          IF p = dst THEN entries[src] ELSE entries[p]]

\* 7zz rn: the arguments taken two by two, each pair a source and a destination
RECURSIVE ArchiveRename(_, _)
ArchiveRename(entries, args) ==
  IF Len(args) < 2 THEN entries
  ELSE ArchiveRename(RenameEntry(entries, args[1], args[2]), SubSeq(args, 3, Len(args)))

\* the two lists one after the other instead of pair by pair
RenameArgs_concatenated == libs \o libs_renamed

\* list(itertools.chain.from_iterable(zip(libs, libs_renamed)))
RenameArgs ==
  [k \in 1..(2 * Len(libs)) |->
     IF k % 2 = 1 THEN libs[(k + 1) \div 2] ELSE libs_renamed[k \div 2]]

\* the archive `apktool b` writes for the tree t at time now
Recompiled(t, now) ==
  LET present == {i \in 1..Len(Archs) : t.lib[i] # 0}
  IN  File(now, t.manifest,
           [p \in {DexPath} \cup {libs_renamed[i] : i \in present} |->
              IF p = DexPath THEN t.dex
              ELSE t.lib[CHOOSE i \in present : libs_renamed[i] = p]],
           FALSE)

\* the quick path: the entries after the three 7zz runs whose exit statuses
\* are rcD, rcA and rcRn (a run that fails leaves the archive as it was)
QuickEntries(entries, payloads, rcD, rcA, rcRn) ==
  LET e1 == IF rcD = 0 THEN ArchiveDelete(entries, libs_renamed) ELSE entries
      e2 == IF rcA = 0 THEN ArchiveAdd(e1, libs, payloads) ELSE e1
      e3 == IF rcRn = 0 THEN ArchiveRename(e2, RenameArgs) ELSE e2
  IN  e3

\* the differential path taken whenever the archive is there
QuickPath_whenever_present(dir, v) == IsFile(dir, PatchedName(v))

\* quick_rebuild and os.path.isfile(newpkg)
QuickPath(dir, v) == quick_rebuild /\ IsFile(dir, PatchedName(v))

rebuild ==
  /\ pc = "rebuild"
  /\ LET newpkg == PatchedName(pkg_version)
         newzip == newpkg \o DotZip
     IN  IF QuickPath(files, pkg_version)
         THEN IF ~bin7zz
              THEN \* run() raises: there is no bin/7zz to start
                   /\ files' = Move(files, newpkg, newzip)
                   /\ Exit(1, <<Call("rebuild"), Tool("move to zip", 0),
                                Raise("FileNotFoundError")>>, 0)
              ELSE \E rcD \in Rc, rcA \in Rc, rcRn \in Rc :
                     \* 7zz a exits non-zero when a file it is given is missing
                     LET doomed == \E i \in 1..Len(Archs) : tree.lib[i] = 0
                         n == Fault(rcD, FALSE) + Fault(rcA, doomed) + Fault(rcRn, FALSE)
                         moved == Move(files, newpkg, newzip)
                         old == moved[newzip]
                         new == [old EXCEPT
                                   !.entries = QuickEntries(old.entries, tree.lib,
                                                            rcD, rcA, rcRn),
                                   !.mtime = IF rcD = 0 \/ rcA = 0 \/ rcRn = 0
                                             THEN Now ELSE old.mtime]
                     IN  /\ Outcome(rcA, doomed)
                         /\ Within(n)
                         /\ files' = Move(Put(moved, newzip, new), newzip, newpkg)
                         /\ Goto("rebuild", <<Call("rebuild"), Tool("move to zip", 0),
                                           Tool("7zz d", rcD), Tool("7zz a", rcA),
                                           Tool("7zz rn", rcRn), Tool("move to apk", 0),
                                           Return("rebuild")>>, n)
         ELSE \E rc \in Rc :
                \* apktool b fails when there is no tree to build
                LET doomed == ~tree.exists
                IN  /\ Outcome(rc, doomed)
                    /\ Within(Fault(rc, doomed))
                    /\ files' = IF rc = 0
                                THEN Put(files, newpkg, Recompiled(tree, Now)) ELSE files
                    /\ Goto("rebuild", <<Call("rebuild"), Tool("apktool b", rc),
                                      Return("rebuild")>>, Fault(rc, doomed))
  /\ UNCHANGED <<skip, quick_rebuild, pkg_version, runs, packages, bin7zz, aapt,
                 apk_build, tree, libs_dir, archive, version_via, files_at_start>>

(***************************************************************************)
(* sign_apk, compress_libs.                                                *)
(***************************************************************************)
sign_apk ==
  /\ pc = "sign"
  /\ LET f == PatchedName(pkg_version)
         unsigned == f \o DotUnsigned
         idsig == f \o DotIdsig
     IN  IF f \notin DOMAIN files
         THEN \* shutil.move raises: there is nothing to rename
              /\ Exit(1, <<Call("sign_apk"), Raise("FileNotFoundError")>>, 0)
              /\ UNCHANGED files
         ELSE \E rcAlign \in Rc, rcSign \in Rc :
                \* apksigner fails when zipalign wrote nothing to sign
                LET doomed == rcAlign # 0
                    n == Fault(rcAlign, FALSE) + Fault(rcSign, doomed)
                    moved == Move(files, f, unsigned)
                    aligned == IF rcAlign = 0
                               THEN Put(moved, f, [moved[unsigned] EXCEPT !.mtime = Now])
                               ELSE moved
                    removed == Remove(aligned, unsigned)
                    signed == IF rcSign = 0
                              THEN Put(Put(removed, f, [removed[f] EXCEPT !.signed = TRUE,
                                                                          !.mtime = Now]),
                                       idsig, File(Now, 0, NoEntries, FALSE))
                              ELSE removed
                    evs == <<Call("sign_apk"), Tool("move to unsigned", 0),
                             Tool("zipalign", rcAlign), Tool("remove unsigned", 0),
                             Tool("apksigner", rcSign)>>
                IN  /\ Outcome(rcSign, doomed)
                    /\ Within(n)
                    /\ IF idsig \in DOMAIN signed
                       THEN /\ files' = Remove(signed, idsig)
                            /\ Goto("sign", evs \o <<Tool("remove idsig", 0),
                                                         Return("sign_apk")>>, n)
                       ELSE \* os.remove raises: there is no sidecar to remove
                            /\ files' = signed
                            /\ Exit(1, Append(evs, Raise("FileNotFoundError")), n)
  /\ UNCHANGED <<skip, quick_rebuild, pkg_version, runs, packages, bin7zz, aapt,
                 apk_build, tree, libs_dir, archive, version_via, files_at_start>>

\* the archive compress_libs writes: each library under its path relative to
\* the libs directory
LibsZip(b, now) ==
  File(now, 0,
       [p \in {Archs[i] \o LibFile : i \in 1..Len(Archs)} |->
          LibPayload(b, CHOOSE i \in 1..Len(Archs) : Archs[i] \o LibFile = p)],
       FALSE)

compress_libs ==
  /\ pc = "compress"
  /\ files' = IF libs_dir = 0 THEN files ELSE Put(files, LibsZipName, LibsZip(libs_dir, Now))
  /\ Exit(0, <<Call("compress_libs"), Return("compress_libs")>>, 0)
  /\ UNCHANGED <<skip, quick_rebuild, pkg_version, runs, packages, bin7zz, aapt,
                 apk_build, tree, libs_dir, archive, version_via, files_at_start>>

Next ==
  \/ main
  \/ build_perseus_lib
  \/ mkcd
  \/ extract_from_packages
  \/ get_version
  \/ decompile_apk
  \/ copy_perseus_libs
  \/ patch
  \/ rebuild
  \/ sign_apk
  \/ compress_libs

Spec == Init /\ [][Next]_vars

(***************************************************************************)
(* extract_from_packages alone, over every content of packages/.           *)
(***************************************************************************)
InitExtract ==
  /\ packages \in {P \in SUBSET PackageNames : Cardinality(P) <= MaxPackages}
  /\ files \in PriorDirs
  /\ apk_build = TRUE
  /\ bin7zz \in BOOLEAN
  /\ aapt = "ok"
  /\ pc = "extract"
  /\ skip \in BOOLEAN
  /\ quick_rebuild = TRUE
  /\ pkg_version = <<"0">>
  /\ exit_code = -1
  /\ runs = 1
  /\ tree = NoTree
  /\ libs_dir = 1
  /\ archive = <<>>
  /\ version_via = "none"
  /\ trace = <<>>
  /\ files_at_start = files
  /\ failures = 0
  /\ prev = NoRun

NextExtract == extract_from_packages

SpecExtract == InitExtract /\ [][NextExtract]_vars

(***************************************************************************)
(* get_version alone, over working directories of every kind.              *)
(***************************************************************************)
\* number of entries of the working directory
MaxApks == 2

HiddenApk == <<".", "x">> \o DotApk

\* the names the working directory may hold
DirNames == {PkgApk, PatchedName(<<"1", ".", "2">>), BaseApkName, HiddenApk, NotesTxt}

\* a dangling link: glob lists it, os.stat fails on it
Dangling ==
  [stat |-> FALSE, mtime |-> 0, manifest |-> 0, entries |-> NoEntries, signed |-> FALSE]

\* the files they may be: archives with each manifest and two modification
\* times, or a dangling link
DirFiles ==
  {File(t, m, NoEntries, FALSE) : t \in {951782399, 1700000000}, m \in 1..3}
    \cup {Dangling}

Dirs ==
  UNION {[N -> DirFiles] : N \in {M \in SUBSET DirNames : Cardinality(M) <= MaxApks}}

InitVersion ==
  /\ packages = {}
  /\ files \in Dirs
  /\ apk_build = TRUE
  /\ bin7zz = TRUE
  /\ aapt \in {"absent", "fails", "ok"}
  /\ pc = "version"
  /\ skip = TRUE
  /\ quick_rebuild = TRUE
  /\ pkg_version = <<"0">>
  /\ exit_code = -1
  /\ runs \in {1, 2}
  /\ tree = NoTree
  /\ libs_dir = 1
  /\ archive = <<>>
  /\ version_via = "none"
  /\ trace = <<>>
  /\ files_at_start = files
  /\ failures = 0
  /\ prev = NoRun

NextVersion == get_version

SpecVersion == InitVersion /\ [][NextVersion]_vars

(***************************************************************************)
(* Properties.                                                             *)
(***************************************************************************)
IsCall(e) == e.op = "call"

\* the tool named t was run in the events evs
Ran(evs, t) == \E k \in 1..Len(evs) : evs[k].op = "tool" /\ evs[k].what = t

\* the tool named t was run in the events evs and exited 0
RanOk(evs, t) ==
  \E k \in 1..Len(evs) : evs[k].op = "tool" /\ evs[k].what = t /\ evs[k].rc = 0

\* the stages of main, in the order the control flow names them
StageOrder ==
  <<"build_perseus_lib", "extract_from_packages", "get_version", "decompile_apk",
    "copy_perseus_libs", "patch", "rebuild", "sign_apk", "compress_libs">>

\* C1: in every run the stages are started in the order build, extraction,
\* version resolution, decompile, injection, patch, rebuild, sign, archival,
\* each at most once and each only after the one before it has returned.
C1_StagesInOrder ==
  LET calls == SelectSeq(trace, IsCall)
  IN  /\ Len(calls) <= Len(StageOrder)
      /\ \A k \in 1..Len(calls) : calls[k].what = StageOrder[k]
      /\ \A i \in 1..Len(trace), j \in 1..Len(trace) :
           (i < j /\ trace[i].op = "call" /\ trace[j].op = "call")
             => \E r \in (i + 1)..(j - 1) : trace[r] = Return(trace[i].what)

\* a run in which all nine stages were started
C1_Witness ==
  pc = "idle" /\ exit_code = 0 /\ Len(SelectSeq(trace, IsCall)) = Len(StageOrder)

\* the native library build tool exited non-zero in the events evs
NdkFailed(evs) ==
  \E k \in 1..Len(evs) : evs[k].op = "tool" /\ evs[k].what = "ndk-build" /\ evs[k].rc # 0

\* C2: when the native library build tool exits non-zero the process ends
\* with exit code 1 at once: no later stage is started in that run, and
\* nothing of apk_build/ is created or changed.
C2_NdkFailureHalts ==
  [][NdkFailed(trace') =>
       /\ pc' = "idle"
       /\ exit_code' = 1
       /\ \A k \in 1..Len(trace') :
            trace'[k].op = "call" => trace'[k].what = "build_perseus_lib"
       /\ files' = files
       /\ files' = files_at_start'
       /\ apk_build' = apk_build
       /\ tree' = tree]_vars

\* the build failed in a run that had files in the working directory
C2_Witness == pc = "idle" /\ exit_code = 1 /\ NdkFailed(trace) /\ files # NoFiles

\* the patched artifacts of the directory dir
Patched(dir) ==
  [n \in {m \in DOMAIN dir : EndsWith(m, DotPatchedApk)} |-> dir[n]]

\* C3 as stated: whenever packages/ is empty a run exits with code 1 and
\* produces no patched artifact, whatever the flags and the prior content of
\* the working directory.
C3_EmptyPackagesAlwaysFails ==
  (pc = "idle" /\ runs > 0 /\ packages = {})
    => (exit_code = 1 /\ Patched(files) = Patched(files_at_start))

\* C3 as amended: whenever packages/ is empty a run exits with code 1 and
\* creates or changes no file of the working directory, unless skip is set
\* and {pkg}.apk is already a file of the working directory when the run starts.
C3_EmptyPackagesFailsUnlessSkipped ==
  (pc = "idle" /\ runs > 0 /\ packages = {}
     /\ ~(skip /\ IsFile(files_at_start, PkgApk)))
    => (exit_code = 1 /\ files = files_at_start)

\* packages/ is empty, {pkg}.apk is there but skip is unset: extraction fails
C3_Witness ==
  /\ pc = "idle" /\ runs > 0 /\ packages = {} /\ ~skip
  /\ IsFile(files_at_start, PkgApk)
  /\ exit_code = 1
  /\ \E k \in 1..Len(trace) : trace[k] = Call("extract_from_packages")

\* no extraction tool was run in the events evs
NoExtractionTool(evs) == ~Ran(evs, "7zz x") /\ ~Ran(evs, "unzip")

\* C4: with skip set and {pkg}.apk already in the working directory,
\* extract_from_packages runs no extraction tool, chooses no archive of
\* packages/ and leaves the working directory unchanged; so a run with skip
\* set that follows a successful run runs no extraction tool.
C4_SkipIdempotent ==
  /\ [][(pc = "extract" /\ skip /\ IsFile(files, PkgApk))
          => /\ pc' = "version"
             /\ files' = files
             /\ archive' = <<>>
             /\ NoExtractionTool(trace')]_vars
  /\ []((runs >= 2 /\ prev.exit_code = 0 /\ skip
           /\ pc \notin {"idle", "build", "mkcd", "extract"})
          => NoExtractionTool(trace))

\* the second run, after a successful first one, is past its skipped extraction
C4_Witness ==
  /\ runs = 2 /\ prev.exit_code = 0 /\ skip /\ pc = "version"
  /\ trace[Len(trace)] = Return("extract_from_packages")

\* the names of packages/ that start with the package name, and the
\* fallback set: .zip, .7z and names containing 'part'
Prefixed(names) == {n \in names : StartsWith(n, pkg)}
Fallback(names) ==
  {n \in names : EndsWith(n, DotZip) \/ EndsWith(n, Dot7z) \/ Contains(n, PartStr)}

\* the first of the prefixed names if there is one, else of the fallback set
FirstOfItsSet(names) ==
  IF Prefixed(names) # {} THEN SortedFirst(Prefixed(names))
  ELSE IF Fallback(names) # {} THEN SortedFirst(Fallback(names))
  ELSE <<>>

\* extraction ran in this run and was not skipped
Extracted == pc # "extract" /\ ~(skip /\ IsFile(files_at_start, PkgApk))

\* C5 as stated: discovery selects a name that starts with the package name
\* when packages/ has one; the fallback set (.zip, .7z, names containing
\* 'part') is consulted only when there is none; the archive chosen is the
\* lexicographically first of its set.
C5_FirstOfItsSet == Extracted => archive = FirstOfItsSet(packages)

\* the names glob lists for a pattern that does not begin with a dot
Visible(names) == {n \in names : n[1] # "."}

\* C5 as amended: the same, over the entries of packages/ whose names do not
\* begin with a dot (glob does not list the others).
C5_FirstOfItsVisibleSet == Extracted => archive = FirstOfItsSet(Visible(packages))

\* the fallback chose A.zip although .a.zip sorts before it
C5_Witness == pc = "version" /\ archive = AZip /\ HiddenZip \in packages

\* strftime('%Y%m%d%H%M%S') of the times the model uses, as Python prints them
Stamp(t) ==
  CASE t = 0 -> <<"1", "9", "7", "0", "0", "1", "0", "1", "0", "0", "0", "0", "0", "0">>
    [] t = 951782399 -> <<"2", "0", "0", "0", "0", "2", "2", "8", "2", "3", "5", "9", "5", "9">>
    [] t = 1700000000 -> <<"2", "0", "2", "3", "1", "1", "1", "4", "2", "2", "1", "3", "2", "0">>
    [] t = 1709251199 -> <<"2", "0", "2", "4", "0", "2", "2", "9", "2", "3", "5", "9", "5", "9">>
    [] t = 1709251239 -> <<"2", "0", "2", "4", "0", "3", "0", "1", "0", "0", "0", "0", "3", "9">>
    [] t = 1709254800 -> <<"2", "0", "2", "4", "0", "3", "0", "1", "0", "1", "0", "0", "0", "0">>
    [] t = 1709258400 -> <<"2", "0", "2", "4", "0", "3", "0", "1", "0", "2", "0", "0", "0", "0">>

\* the version name in the manifest m, <<>> when it names none or an empty one
VersionNameOf(m) == IF m = 1 THEN <<"1", ".", "2">> ELSE <<>>

\* the names of the working directory glob('*.apk') lists
ApkNames == {n \in DOMAIN files : n[1] # "." /\ EndsWith(n, DotApk)}

\* the badging tool exits 0 on the candidate and prints a versionName field
BadgingHasField(apk) == aapt = "ok" /\ files[apk].stat /\ files[apk].manifest \in {1, 3}

\* C6 as stated: with a candidate and the badging tool exiting 0 with a
\* versionName field, the version is that value; otherwise, with a candidate,
\* it is the candidate's modification time; only with no candidate at all is
\* it the current time.
C6_FirstSuccessWins ==
  pc = "decompile" =>
    IF ApkNames = {} THEN pkg_version = Stamp(Now)
    ELSE LET apk == SortedFirst(ApkNames)
         IN  IF BadgingHasField(apk)
             THEN pkg_version = VersionNameOf(files[apk].manifest)
             ELSE pkg_version = Stamp(files[apk].mtime)

\* C6 as amended: with a candidate and the badging tool exiting 0 with a
\* non-empty versionName field, the version is that value; otherwise, with a
\* candidate whose modification time can be read, it is that time; the
\* current time is used when there is no candidate or when the candidate's
\* modification time cannot be read.
C6_FirstSuccessWinsAmended ==
  pc = "decompile" =>
    IF ApkNames = {} THEN pkg_version = Stamp(Now)
    ELSE LET apk == SortedFirst(ApkNames)
         IN  IF BadgingHasField(apk) /\ VersionNameOf(files[apk].manifest) # <<>>
             THEN pkg_version = VersionNameOf(files[apk].manifest)
             ELSE IF files[apk].stat
             THEN pkg_version = Stamp(files[apk].mtime)
             ELSE pkg_version = Stamp(Now)

\* a candidate exists, its modification time cannot be read: the current time
C6_Witness ==
  pc = "decompile" /\ ApkNames # {} /\ ~files[SortedFirst(ApkNames)].stat
    /\ pkg_version = Stamp(Now)

DigitValue(c) == CHOOSE d \in 0..9 : Digit[d + 1] = c
TwoDigits(v, k) == 10 * DigitValue(v[k]) + DigitValue(v[k + 1])

\* v is a YYYYMMDDHHMMSS timestamp
IsTimestamp(v) ==
  /\ Len(v) = 14
  /\ \A k \in 1..14 : \E d \in 1..10 : Digit[d] = v[k]
  /\ TwoDigits(v, 5) \in 1..12
  /\ TwoDigits(v, 7) \in 1..31
  /\ TwoDigits(v, 9) \in 0..23
  /\ TwoDigits(v, 11) \in 0..59
  /\ TwoDigits(v, 13) \in 0..59

\* C7: get_version never fails: whatever the candidates, the badging tool
\* and the modification time, it returns to main (the process does not end
\* in it) having assigned a version string, and with no candidate that
\* string is a 14-digit YYYYMMDDHHMMSS timestamp.
C7_VersionNeverFails ==
  [][pc = "version" =>
       /\ pc' = "decompile"
       /\ exit_code' = exit_code
       /\ trace'[Len(trace')] = Return("get_version")
       /\ version_via' # "none"
       /\ Len(pkg_version') > 0
       /\ ApkNames = {} => IsTimestamp(pkg_version')]_vars

\* get_version returned in a directory that has entries but no candidate
C7_Witness ==
  pc = "decompile" /\ ApkNames = {} /\ DOMAIN files # {} /\ IsTimestamp(pkg_version)

\* the in-archive paths of the three libraries, and their staging names
LibPaths == {libs_renamed[i] : i \in 1..Len(Archs)}
StagingPaths == {libs[i] : i \in 1..Len(Archs)}

\* rebuild took the quick path and its three 7zz runs exited 0
QuickSucceeded(evs) == RanOk(evs, "7zz d") /\ RanOk(evs, "7zz a") /\ RanOk(evs, "7zz rn")

\* C8: on the quick path, from a previous archive with entries at the three
\* library paths and with delete, add and rename succeeding, the archive
\* under the patched name holds at each of the three paths the payload of
\* the library on disk, no entry at a staging name, and every entry that is
\* no library (neither at a library path nor at a staging name, where an
\* earlier failed rename may have left a library) with the path and payload
\* it had.
C8_QuickRoundTrip ==
  [][(pc = "rebuild" /\ pc' = "sign" /\ QuickSucceeded(trace')
        /\ LibPaths \subseteq DOMAIN files[PatchedName(pkg_version)].entries)
       => LET old == files[PatchedName(pkg_version)].entries
              new == files'[PatchedName(pkg_version)].entries
          IN  /\ \A i \in 1..Len(Archs) :
                   /\ libs_renamed[i] \in DOMAIN new
                   /\ new[libs_renamed[i]] = tree.lib[i]
              /\ StagingPaths \cap DOMAIN new = {}
              /\ (DOMAIN new) \ (LibPaths \cup StagingPaths)
                   = (DOMAIN old) \ (LibPaths \cup StagingPaths)
              /\ \A p \in (DOMAIN old) \ (LibPaths \cup StagingPaths) :
                   new[p] = old[p]]_vars

\* the quick path replaced the libraries of the first run's archive by
\* those the second run built
C8_Witness ==
  /\ pc = "sign" /\ runs = 2 /\ QuickSucceeded(trace)
  /\ PatchedName(pkg_version) \in DOMAIN files
  /\ LET e == files[PatchedName(pkg_version)].entries
     IN  /\ LibPaths \subseteq DOMAIN e
         /\ \A i \in 1..Len(Archs) : e[libs_renamed[i]] = LibPayload(2, i)
         /\ DexPath \in DOMAIN e

\* C9: with quick-rebuild enabled and a signed artifact of a prior run in the
\* working directory, rebuild uses differential repackaging: in the second of
\* two consecutive runs with default flags and every tool succeeding, the
\* version is the one the first run named its signed archive with, and the
\* differential path is taken instead of the recompiler.
C9_SecondRunIsDifferential ==
  (/\ runs >= 2 /\ pc = "sign"
   /\ prev.exit_code = 0 /\ prev.tools_ok /\ prev.skip /\ prev.quick_rebuild
   /\ skip /\ quick_rebuild /\ ToolsOk(trace))
    => /\ pkg_version = prev.pkg_version
       /\ Ran(trace, "7zz d")
       /\ ~Ran(trace, "apktool b")

\* C10: in every reachable state at most one signed {pkg}-{version}.patched.apk
\* exists in the working directory.
C10_OnePatchedArtifact ==
  Cardinality({n \in DOMAIN files :
                 StartsWith(n, pkg \o <<"-">>) /\ EndsWith(n, DotPatchedApk)}) <= 1

\* C11: no stage begins unless the artifact of the stage before it exists:
\* copy_perseus_libs and patch are about to be called only while the tree
\* {pkg}/ exists, rebuild only while the tree exists, sign_apk only while the
\* archive {pkg}-{version}.patched.apk exists.
C11_StagesHaveTheirArtifact ==
  /\ pc \in {"copy", "patch", "rebuild"} => tree.exists
  /\ pc = "sign" => IsFile(files, PatchedName(pkg_version))

(***************************************************************************)
(* The pipeline under fairness: a process that has started keeps running,  *)
(* every external tool invocation is a blocking call that returns.         *)
(***************************************************************************)
\* the positions of main: the stage it is about to call
Positions ==
  {"build", "mkcd", "extract", "version", "decompile", "copy", "patch", "rebuild",
   "sign", "compress", "idle"}

\* the running process leaves its position: the stage it called returns or
\* ends the process (every stage is a finite sequence of blocking calls)
Advance == pc # "idle" /\ pc' \in Positions \ {pc}

SpecLive == Init /\ [][Next]_vars /\ WF_pc(Advance)

\* run r has just started with skip and quick-rebuild both unset
FullRunStarted(r) == pc = "build" /\ runs = r /\ ~skip /\ ~quick_rebuild

\* some archive of packages/ contains {pkg}.apk
SomeArchiveHasApk == \E a \in packages : IsFile(ArchiveContent(a), PkgApk)

\* the archive extract_from_packages selects contains {pkg}.apk
SelectedArchiveHasApk ==
  /\ ExtractCandidates(packages) # {}
  /\ IsFile(ArchiveContent(SortedFirst(ExtractCandidates(packages))), PkgApk)

\* run r is over; if every tool it ran exited 0, its exit code is 0 and the
\* working directory holds the signed {pkg}-{version}.patched.apk, no
\* .unsigned file and no .idsig file
FullRunSucceeded(r) ==
  /\ pc = "idle" /\ runs = r
  /\ ToolsOk(trace) =>
       /\ exit_code = 0
       /\ IsFile(files, PatchedName(pkg_version))
       /\ files[PatchedName(pkg_version)].signed
       /\ \A n \in DOMAIN files : ~EndsWith(n, DotUnsigned) /\ ~EndsWith(n, DotIdsig)

\* C12 as stated: with packages/ holding an archive that contains {pkg}.apk,
\* skip and quick-rebuild unset and every tool succeeding, the run eventually
\* terminates with exit code 0, the signed patched archive in the working
\* directory and no .unsigned or .idsig file left.
C12_EndToEndSuccess ==
  \A r \in 1..MaxRuns :
    (FullRunStarted(r) /\ SomeArchiveHasApk) ~> FullRunSucceeded(r)

\* C12, amended: the same when the archive that extraction selects from
\* packages/ is one that contains {pkg}.apk.
C12_EndToEndSuccessOfSelected ==
  \A r \in 1..MaxRuns :
    (FullRunStarted(r) /\ SelectedArchiveHasApk) ~> FullRunSucceeded(r)

\* a full run from an archive that holds {pkg}.apk ended with exit code 0 and
\* the signed archive
C12_Witness ==
  /\ pc = "idle" /\ ~skip /\ ~quick_rebuild /\ SelectedArchiveHasApk
  /\ ToolsOk(trace) /\ Ran(trace, "apktool b") /\ Ran(trace, "apksigner")
  /\ exit_code = 0
  /\ IsFile(files, PatchedName(pkg_version))
  /\ files[PatchedName(pkg_version)].signed

\* extract_from_packages searches packages/ and lists no candidate
NoCandidateFound ==
  ~(skip /\ IsFile(files, PkgApk)) /\ FirstOfItsSet(Visible(packages)) = <<>>

\* an extraction tool was run in the events evs and exited non-zero
ExtractionToolFailed(evs) ==
  \E k \in 1..Len(evs) :
    evs[k].op = "tool" /\ evs[k].what \in {"7zz x", "unzip"} /\ evs[k].rc # 0

\* an extraction tool was run in the events evs and exited 0
ExtractionToolOk(evs) == RanOk(evs, "7zz x") \/ RanOk(evs, "unzip")

\* only build_perseus_lib and extract_from_packages were called in evs
NothingAfterExtraction(evs) ==
  \A k \in 1..Len(evs) :
    IsCall(evs[k]) => evs[k].what \in {"build_perseus_lib", "extract_from_packages"}

\* C13: extract_from_packages ends the process, with exit code 1 and before
\* any later stage is called, exactly when it found no candidate archive, or
\* the extraction tool it ran exited non-zero, or {pkg}.apk is not a file of
\* the working directory after the tool exited 0; in every other case it
\* returns and main goes on with get_version.
C13_ExtractionFatalCases ==
  [][pc = "extract" =>
       LET fatal == \/ NoCandidateFound
                    \/ ExtractionToolFailed(trace')
                    \/ ExtractionToolOk(trace') /\ ~IsFile(files', PkgApk)
       IN  IF fatal
           THEN pc' = "idle" /\ exit_code' = 1 /\ NothingAfterExtraction(trace')
           ELSE pc' = "version" /\ exit_code' = -1]_vars

\* the tool exited 0 but the archive it extracted held no {pkg}.apk
C13_Witness ==
  /\ pc = "idle" /\ exit_code = 1
  /\ ExtractionToolOk(trace) /\ ~IsFile(files, PkgApk)
  /\ trace[Len(trace)].op = "tool" /\ NothingAfterExtraction(trace)

\* the positions of main after get_version has returned
AfterVersion == {"decompile", "copy", "patch", "rebuild", "sign", "compress"}

\* the names of the working directory that this run created and that carry a
\* version: {pkg}-... (the patched archive, its .zip, .unsigned and .idsig)
VersionedNames == {n \in (DOMAIN files) \ (DOMAIN files_at_start) : StartsWith(n, pkg \o <<"-">>)}

\* C14: the flags skip and quick_rebuild are written by main alone, when the
\* process starts, and by no stage; the version is written by get_version
\* alone, once in a run, and is the value of the module's initialisation
\* before; rebuild, sign_apk and the end of main read it after that write,
\* and every versioned name a run creates carries that one version.
C14_PolicyAndVersionWrittenOnce ==
  /\ [][/\ (skip' # skip \/ quick_rebuild' # quick_rebuild) => (pc = "idle" /\ pc' = "build")
        /\ pc \in {"build", "mkcd", "extract"} => pkg_version' = <<"0">>
        /\ pc = "version" => (version_via = "none" /\ version_via' # "none")
        /\ pc \in AfterVersion => (pkg_version' = pkg_version /\ version_via' = version_via)
       ]_vars
  /\ [](/\ pc \in AfterVersion => version_via # "none"
        /\ \A n \in VersionedNames : StartsWith(n, PatchedName(pkg_version)))

\* a second run has ended: it resolved a version other than that of the
\* archive it found, and the archive it created is named after its own
C14_Witness ==
  /\ pc = "idle" /\ runs = 2 /\ exit_code = 0 /\ version_via # "none"
  /\ PatchedName(pkg_version) \in VersionedNames
  /\ \E n \in DOMAIN files_at_start : EndsWith(n, DotPatchedApk)

\* the events the step logs
StepEvents == SubSeq(trace', Len(trace) + 1, Len(trace'))

\* the step starts no tool, moves and removes no file, raises nothing
NoAction == \A k \in 1..Len(StepEvents) : StepEvents[k].op \in {"call", "return"}

\* the tree holds a library for every architecture
LibsInTree == tree.exists /\ \A i \in 1..Len(Archs) : tree.lib[i] # 0

\* C15 as stated: with skip set, each of extraction, decompile, library
\* injection, patch, rebuild and sign performs no action when its output (the
\* archive {pkg}.apk, the tree, the libraries in the tree, the patched tree,
\* the rebuilt archive, the signed archive) is already there.
C15_EveryStageSkips ==
  [][skip =>
       /\ (pc = "extract" /\ IsFile(files, PkgApk)) => (NoAction /\ files' = files)
       /\ (pc = "decompile" /\ tree.exists) => (NoAction /\ tree' = tree)
       /\ (pc = "copy" /\ LibsInTree) => (NoAction /\ tree' = tree)
       /\ (pc = "patch" /\ tree.exists /\ tree.dex = 2) => (NoAction /\ tree' = tree)
       /\ (pc = "rebuild" /\ IsFile(files, PatchedName(pkg_version)))
            => (NoAction /\ files' = files)
       /\ (pc = "sign" /\ IsFile(files, PatchedName(pkg_version))
             /\ files[PatchedName(pkg_version)].signed)
            => (NoAction /\ files' = files)]_vars

\* C15, amended: with skip set, extraction and decompile perform no action
\* when {pkg}.apk, respectively the tree, is already there; library
\* injection, patch, rebuild and sign do not consult the flag: each of them
\* acts in every run, whatever is already there.
C15_ExtractionAndDecompileSkip ==
  [][/\ skip =>
          /\ (pc = "extract" /\ IsFile(files, PkgApk)) => (NoAction /\ files' = files)
          /\ (pc = "decompile" /\ tree.exists) => (NoAction /\ tree' = tree)
     /\ pc \in {"copy", "patch", "rebuild", "sign"} => ~NoAction]_vars

\* a second run with skip set skipped the decompile and copied the libraries
\* into a tree that held the libraries of the first run
C15_Witness ==
  /\ skip /\ runs = 2 /\ pc = "patch"
  /\ prev.exit_code = 0 /\ prev.tools_ok
  /\ ~Ran(trace, "apktool d") /\ RanOk(trace, "cp")
  /\ \A i \in 1..Len(Archs) : tree.lib[i] = LibPayload(2, i)

\* the steps of the differential path and the recompiler
QuickTools == {"move to zip", "7zz d", "7zz a", "7zz rn", "move to apk"}

\* how many times the tool named t was run in the events evs
TimesRun(evs, t) ==
  Cardinality({k \in 1..Len(evs) : evs[k].op = "tool" /\ evs[k].what = t})

\* C16: rebuild takes the differential path if and only if quick_rebuild is
\* set and {pkg}-{version}.patched.apk is a file when it starts; otherwise it
\* runs the recompiler exactly once, whatever skip is; no run runs both the
\* recompiler and a step of the differential path.
C16_ExactlyOneRebuildPath ==
  /\ [][pc = "rebuild" =>
          IF quick_rebuild /\ IsFile(files, PatchedName(pkg_version))
          THEN /\ TimesRun(StepEvents, "move to zip") = 1
               /\ TimesRun(StepEvents, "apktool b") = 0
          ELSE /\ TimesRun(StepEvents, "apktool b") = 1
               /\ \A t \in QuickTools : TimesRun(StepEvents, t) = 0]_vars
  /\ [](/\ TimesRun(trace, "apktool b") <= 1
        /\ ~(Ran(trace, "apktool b") /\ \E t \in QuickTools : Ran(trace, t)))

\* with skip set and quick-rebuild unset the recompiler ran although the
\* archive of an earlier run was there
C16_Witness ==
  /\ pc = "sign" /\ skip /\ ~quick_rebuild
  /\ IsFile(files_at_start, PatchedName(pkg_version))
  /\ TimesRun(trace, "apktool b") = 1

\* the names of the tools and file operations in the events evs, in order
RECURSIVE ToolNames(_)
ToolNames(evs) ==
  IF evs = <<>> THEN <<>>
  ELSE (IF evs[1].op = "tool" THEN <<evs[1].what>> ELSE <<>>) \o ToolNames(Tail(evs))

\* C17: when rebuild takes the differential path its five steps happen in the
\* order rename to the scratch name, delete, add, rename entries, rename
\* back, whatever the exit statuses of the three archive-tool runs; the
\* archive is under its {pkg}-{version}.patched.apk name again, the scratch
\* name is gone, and main goes on with sign_apk.
C17_QuickStepsAllRun ==
  [][(pc = "rebuild" /\ quick_rebuild /\ IsFile(files, PatchedName(pkg_version)))
       => /\ ToolNames(StepEvents)
               = <<"move to zip", "7zz d", "7zz a", "7zz rn", "move to apk">>
          /\ pc' = "sign"
          /\ IsFile(files', PatchedName(pkg_version))
          /\ (PatchedName(pkg_version) \o DotZip) \notin DOMAIN files']_vars

\* C18: decompile_apk removes no tree and runs no decompiler exactly when
\* skip is set and the tree {pkg}/ exists; in every other case a tree that
\* exists is removed before the decompiler is run, so that the tree after the
\* call is the one the decompiler wrote for {pkg}.apk, or none if it failed,
\* with nothing of the old tree in it.
C18_DecompileNoOpOrFresh ==
  [][pc = "decompile" =>
       IF skip /\ tree.exists
       THEN NoAction /\ tree' = tree
       ELSE /\ ToolNames(StepEvents)
                 = (IF tree.exists THEN <<"rmtree">> ELSE <<>>) \o <<"apktool d">>
            /\ \/ tree' = NoTree
               \/ IsFile(files, PkgApk) /\ tree' = Decompiled(files[PkgApk])]_vars

\* a second run with skip unset removed the patched tree of the first run
\* and decompiled anew: the tree holds no library and the original dex
C18_Witness ==
  /\ pc = "copy" /\ runs = 2 /\ ~skip
  /\ ToolNames(SubSeq(trace, Len(trace) - 3, Len(trace) - 1)) = <<"rmtree", "apktool d">>
  /\ RanOk(trace, "apktool d")
  /\ tree.exists /\ tree.dex = 1 /\ \A i \in 1..Len(Archs) : tree.lib[i] = 0

\* the names of the extraction tools run in the events evs, in order
ExtractionToolsRun(evs) ==
  SelectSeq(ToolNames(evs), LAMBDA t : t \in {"7zz x", "unzip"})

\* C19: when extraction is not skipped and packages/ has a candidate archive,
\* extract_from_packages runs exactly one extraction tool: the bundled 7zz
\* if bin/7zz is a file, unzip if it is not; a non-zero exit of 7zz is
\* followed by no run of unzip, in that call and in the rest of the run.
C19_OneExtractionTool ==
  /\ [][(pc = "extract" /\ ~(skip /\ IsFile(files, PkgApk))
           /\ FirstOfItsSet(Visible(packages)) # <<>>)
          => ExtractionToolsRun(StepEvents)
               = <<IF bin7zz THEN "7zz x" ELSE "unzip">>]_vars
  /\ [](Len(ExtractionToolsRun(trace)) <= 1)

\* the bundled tool exited non-zero: the process ended and unzip was not run
C19_Witness ==
  /\ pc = "idle" /\ exit_code = 1 /\ bin7zz
  /\ trace[Len(trace)] = Tool("7zz x", 1)
  /\ ~Ran(trace, "unzip")

\* the steps of sign_apk, in the order of its code
SignSteps == <<"move to unsigned", "zipalign", "remove unsigned", "apksigner", "remove idsig">>

\* C20: the steps sign_apk performs are, in order, rename to .unsigned,
\* align, remove .unsigned, sign, remove .idsig, or the first of them when it
\* is cut short; whenever it returns all five were performed, the final
\* archive is a file, and neither the .unsigned nor the .idsig file exists;
\* once the align step was run the .unsigned file is gone, whatever the
\* alignment tool's exit status.
C20_SignSteps ==
  [][pc = "sign" =>
       LET f == PatchedName(pkg_version)
           done == ToolNames(StepEvents)
       IN  /\ Len(done) <= Len(SignSteps)
           /\ done = SubSeq(SignSteps, 1, Len(done))
           /\ pc' = "compress" =>
                /\ done = SignSteps
                /\ IsFile(files', f)
                /\ (f \o DotUnsigned) \notin DOMAIN files'
                /\ (f \o DotIdsig) \notin DOMAIN files'
           /\ Len(done) >= 2 =>
                /\ Len(done) >= 3
                /\ (f \o DotUnsigned) \notin DOMAIN files']_vars

\* the alignment tool exited non-zero: the .unsigned file was removed all the
\* same, no final archive is left and sign_apk did not return
C20_Witness ==
  /\ pc = "idle" /\ exit_code = 1
  /\ Ran(trace, "zipalign") /\ ~RanOk(trace, "zipalign")
  /\ Ran(trace, "remove unsigned")
  /\ PatchedName(pkg_version) \notin DOMAIN files
  /\ (PatchedName(pkg_version) \o DotUnsigned) \notin DOMAIN files

====
